---- MODULE Spec2Model ----
(***************************************************************************)
(* EasyPlot (src/easyplot.py): a thin matplotlib wrapper.  A session is an *)
(* EasyPlot object; its state is the option dictionary self.kwargs, the    *)
(* positional arguments self.args, the flag self.isnewargs and the list of *)
(* line handles self.line_list.  The process-wide state is matplotlib's    *)
(* rcParams['font.size'] and pyplot's stock of figures.                     *)
(*                                                                         *)
(* Python values are modelled as strings; a dictionary is a function whose *)
(* DOMAIN is its key set; a tuple or list is a sequence.  Calls that raise *)
(* (an attribute lookup on a None axes) leave the state as the statements  *)
(* executed before the raise left it.                                      *)
(***************************************************************************)
EXTENDS Naturals, Sequences, FiniteSets, TLC

VARIABLES
    obj,        \* the EasyPlot objects that exist: session id -> its attributes
    font_size,  \* mpl.rcParams['font.size']
    nfig,       \* number of figures pyplot has created so far
    nline,      \* number of Line2D objects ax.plot has returned so far
    optnames,   \* the option names the calling program passes in this run
    objnames,   \* the sessions the calling program creates in this run
    ncalls,     \* number of calls made so far
    hist,       \* per session: summary of its most recent add/update/new call
    last        \* record of the most recent call (what was passed, what it did)

vars == <<obj, font_size, nfig, nline, optnames, objnames, ncalls, hist, last>>

----------------------------------------------------------------------------
(* Bounds of the model *)

MaxCalls == 3

Sessions == {"a", "b"}

----------------------------------------------------------------------------
(* Python values *)

None == "None"

\* Python truthiness of the values the model uses (None and False are falsy)
Truthy(v) == v \notin {"None", "False"}

\* plt.figure() returns a new Figure each time; plt.gca() then makes a new Axes on it
FigHandle(n) == "fig" \o ToString(n)
AxHandle(n) == "ax" \o ToString(n)
LineHandle(n) == "line" \o ToString(n)

\* matplotlib's font size before any call changes it
RcDefault == "10"

----------------------------------------------------------------------------
(* Dictionaries *)

\* d.update(new) / d[k] = new[k] for every k of new
Merge(old, new) ==
    [k \in (DOMAIN old) \cup (DOMAIN new) |->
        IF k \in DOMAIN new THEN new[k] ELSE old[k]]

\* d.pop(k, None) for every k of keys
Pop(d, keys) == [k \in (DOMAIN d) \ keys |-> d[k]]

----------------------------------------------------------------------------
(* The tables set up by __init__ *)

_default_kwargs ==
    [fig |-> None, ax |-> None, figsize |-> None, label |-> None,
     showlegend |-> "False", fancybox |-> "True", framealpha |-> "1.0",
     loc |-> "best", numpoints |-> "1"]

alias_dict ==
    [lw |-> "linewidth", ls |-> "linestyle", mfc |-> "markerfacecolor",
     mew |-> "markeredgewidth", mec |-> "markeredgecolor",
     ms |-> "markersize", mev |-> "markevery", c |-> "color",
     fs |-> "fontsize"]

plot_kwargs ==
    {"label", "linewidth", "linestyle", "marker", "markerfacecolor",
     "markeredgewidth", "markersize", "markeredgecolor", "markevery", "alpha"}

_uniqueparams_loc ==
    {"color", "label", "linestyle", "marker", "colorcycle", "loc"}

_uniqueparams == {"color", "label", "linestyle", "marker", "colorcycle"}

_ax_funcs ==
    [xlabel |-> "set_xlabel", ylabel |-> "set_ylabel", xlim |-> "set_xlim",
     ylim |-> "set_ylim", title |-> "set_title",
     colorcycle |-> "set_color_cycle"]

----------------------------------------------------------------------------
(* The methods *)

\* _update, lines 267-269: every alias present in the call's kwargs is popped
\* from them and written to self.kwargs under its full name
ResolveAliases(selfkw, kwargs) ==
    LET hit == (DOMAIN kwargs) \cap (DOMAIN alias_dict)
        full == {alias_dict[a] : a \in hit}
    IN  Merge(selfkw,
              [k \in full |-> kwargs[CHOOSE a \in hit : alias_dict[a] = k]])

\* _update, lines 272-273: what is left of the call's kwargs after the pops
\* is written to self.kwargs key by key
UpdateKwargs_setdefault(selfkw, kwargs) ==
    Merge(Pop(kwargs, DOMAIN alias_dict), selfkw)

UpdateKwargs(selfkw, kwargs) ==
    Merge(selfkw, Pop(kwargs, DOMAIN alias_dict))

\* _update: self.args and self.isnewargs, then the two loops over kwargs
_update_aliaslast(self, args, kwargs) ==
    [self EXCEPT
        !.args = IF args # <<>> THEN args ELSE @,
        !.isnewargs = (args # <<>>),
        !.kwargs = ResolveAliases(UpdateKwargs(@, kwargs), kwargs)]

_update_clearargs(self, args, kwargs) ==
    [self EXCEPT
        !.args = args,
        !.isnewargs = (args # <<>>),
        !.kwargs = UpdateKwargs(ResolveAliases(@, kwargs), kwargs)]

_update(self, args, kwargs) ==
    [self EXCEPT
        !.args = IF args # <<>> THEN args ELSE @,
        !.isnewargs = (args # <<>>),
        !.kwargs = UpdateKwargs(ResolveAliases(@, kwargs), kwargs)]

\* _delete_uniqueparams: pop every unique parameter
_delete_uniqueparams_labelonly(selfkw) == Pop(selfkw, {"label"})

_delete_uniqueparams(selfkw) == Pop(selfkw, _uniqueparams)

\* _reset
_reset_keep(self, reset) ==
    [self EXCEPT !.args = <<>>, !.line_list = <<>>]

_reset(self, reset) ==
    [self EXCEPT
        !.args = <<>>,
        !.line_list = <<>>,
        !.kwargs = IF reset THEN _default_kwargs ELSE @]

\* add_plot, lines 106-110: a figure and its axes are made when fig is None
NeedsFigure_ax(selfkw) == selfkw["ax"] = None

NeedsFigure(selfkw) == selfkw["fig"] = None

CreateFigure(selfkw, n) ==
    IF NeedsFigure(selfkw)
    THEN [selfkw EXCEPT !["fig"] = FigHandle(n + 1), !["ax"] = AxHandle(n + 1)]
    ELSE selfkw

\* add_plot, lines 116-139: ax.plot, getattr(ax, ...) and ax.legend raise
\* AttributeError when ax is None
AxRaises(self, selfkw) ==
    /\ selfkw["ax"] = None
    /\ \/ self.isnewargs
       \/ (DOMAIN selfkw) \cap (DOMAIN _ax_funcs) # {}
       \/ Truthy(selfkw["showlegend"])

\* add_plot, lines 116 and 123-124: the line ax.plot returns is appended to
\* self.line_list, only when the call brought new positional arguments
PlotLine_always(self, n) == Append(self.line_list, LineHandle(n + 1))

PlotLine(self, n) ==
    IF self.isnewargs
    THEN Append(self.line_list, LineHandle(n + 1))
    ELSE self.line_list

\* add_plot, lines 118-121: the keyword arguments handed to ax.plot
PlotKwargs(selfkw) ==
    [k \in (plot_kwargs \cap DOMAIN selfkw) \cup ({"color"} \cap DOMAIN selfkw)
        |-> selfkw[k]]

\* add_plot, lines 127-131: the axes functions applied, with their arguments
AxCalls(selfkw) ==
    {<<_ax_funcs[k], selfkw[k]>> : k \in (DOMAIN selfkw) \cap (DOMAIN _ax_funcs)}

\* add_plot, lines 141-142 with set_fontsize: rcParams['font.size'] after
FontAfter(selfkw, font) ==
    IF "fontsize" \in DOMAIN selfkw THEN selfkw["fontsize"] ELSE font

\* add_plot: the whole method.  env holds the process-wide state; the result
\* holds the object and the process-wide state afterwards, whether the call
\* returned ("ok") or raised ("error"), and what its effects were given
add_plot(self, args, kwargs, env) ==
    LET u       == _update(self, args, kwargs)
        created == NeedsFigure(u.kwargs)
        used    == CreateFigure(u.kwargs, env.nfig)
        nfig1   == IF created THEN env.nfig + 1 ELSE env.nfig
    IN  IF AxRaises(u, used)
        THEN [self |-> [u EXCEPT !.kwargs = used],
              font |-> env.font, nfig |-> nfig1, nline |-> env.nline,
              status |-> "error", used |-> used, created |-> created,
              plotted |-> <<>>, axcalls |-> {}]
        ELSE [self |-> [u EXCEPT
                          !.kwargs = _delete_uniqueparams(used),
                          !.line_list = PlotLine(u, env.nline)],
              font |-> FontAfter(used, env.font),
              nfig |-> nfig1,
              nline |-> IF u.isnewargs THEN env.nline + 1 ELSE env.nline,
              status |-> "ok", used |-> used, created |-> created,
              plotted |-> IF u.isnewargs THEN PlotKwargs(used) ELSE <<>>,
              axcalls |-> AxCalls(used)]

\* new_plot, line 165
ResetFlag_defaulttrue(kwargs) ==
    IF "reset" \in DOMAIN kwargs THEN Truthy(kwargs["reset"]) ELSE TRUE

ResetFlag(kwargs) ==
    IF "reset" \in DOMAIN kwargs THEN Truthy(kwargs["reset"]) ELSE FALSE

\* new_plot
new_plot(self, args, kwargs, env) ==
    LET r == _reset(self, ResetFlag(kwargs))
        d == [r EXCEPT !.kwargs = [@ EXCEPT !["fig"] = None, !["ax"] = None]]
    IN  add_plot(d, args, kwargs, env)

\* __init__, lines 85-87: the attributes before the constructor calls add_plot.
\* isnewargs does not exist yet; _update sets it before anything reads it.
NewObject ==
    [kwargs |-> _default_kwargs, args |-> <<>>, line_list |-> <<>>,
     isnewargs |-> FALSE]

----------------------------------------------------------------------------
(* What the calling program passes *)

\* the values a caller passes for option k in its n-th call: the handle of a
\* figure or axes made by the caller (or None, to ask for a new figure), a
\* flag, a font size, and for every other option a value not passed before
ValuesOf(k, n) ==
    CASE k = "fig" -> {"extfig", None}
      [] k = "ax" -> {"extax"}
      [] k \in {"reset", "showlegend"} -> {"True", "False"}
      [] k \in {"fs", "fontsize"} -> {"12", "16"}
      [] OTHER -> {k \o ToString(n)}

\* every dictionary the n-th call may pass over a subset of the names in K
Dicts(K, n) ==
    UNION {{f \in [D -> UNION {ValuesOf(k, n) : k \in D}] :
               \A k \in D : f[k] \in ValuesOf(k, n)} : D \in SUBSET K}

\* positional arguments of the n-th call: none, or plot(x, y, fmt) on new data
ArgChoices(n) == {<<>>, <<"x" \o ToString(n), "y" \o ToString(n), "r-o">>}

AliasPairs == {{a, alias_dict[a]} : a \in DOMAIN alias_dict}

\* the sets of option names a run draws its keyword arguments from
KeySets ==
    {{"fig", "ax"}, {"fig", "title"}, {"fig", "showlegend"}, {"label", "reset"},
     {"title", "reset"}, {"title", "linewidth"}, {"marker", "colorcycle"},
     {"c", "color"}, {"ls", "linestyle"}}

----------------------------------------------------------------------------
(* The state machine *)

Env == [font |-> font_size, nfig |-> nfig, nline |-> nline]

NoCall == [op |-> "none", status |-> "none", kwargs |-> <<>>]

CallRecord(op, s, args, kwargs, pre, r) ==
    [op |-> op, self |-> s, args |-> args, kwargs |-> kwargs, pre |-> pre,
     status |-> r.status, used |-> r.used, created |-> r.created,
     plotted |-> r.plotted, axcalls |-> r.axcalls,
     font_before |-> font_size,
     prior |-> IF s \in DOMAIN hist THEN hist[s] ELSE NoCall]

Summary(op, kwargs, r) == [op |-> op, status |-> r.status, kwargs |-> kwargs]

Effects(r) ==
    /\ font_size' = r.font
    /\ nfig' = r.nfig
    /\ nline' = r.nline
    /\ ncalls' = ncalls + 1
    /\ UNCHANGED <<optnames, objnames>>

BaseInit ==
    /\ obj = <<>>
    /\ font_size = RcDefault
    /\ nfig = 0
    /\ nline = 0
    /\ ncalls = 0
    /\ hist = <<>>
    /\ last = NoCall

\* one session, any of the key sets
Init ==
    /\ BaseInit
    /\ optnames \in KeySets
    /\ objnames = {"a"}

\* one session, an alias and its full name
InitAlias ==
    /\ BaseInit
    /\ optnames \in AliasPairs
    /\ objnames = {"a"}

\* two sessions in one process, passing font sizes
InitShared ==
    /\ BaseInit
    /\ optnames = {"fs", "fontsize"}
    /\ objnames = Sessions

\* s = EasyPlot(*args, **kwargs); when add_plot raises, no object results
Construct(s, args, kwargs) ==
    /\ ncalls < MaxCalls
    /\ s \notin DOMAIN obj
    /\ LET r == add_plot(NewObject, args, kwargs, Env)
       IN  /\ Effects(r)
           /\ last' = CallRecord("init", s, args, kwargs, NewObject, r)
           /\ IF r.status = "ok"
              THEN /\ obj' = Merge(obj, [x \in {s} |-> r.self])
                   /\ hist' = Merge(hist, [x \in {s} |-> Summary("init", kwargs, r)])
              ELSE UNCHANGED <<obj, hist>>

\* s.add_plot(*args, **kwargs)
AddPlot(s, args, kwargs) ==
    /\ ncalls < MaxCalls
    /\ s \in DOMAIN obj
    /\ LET r == add_plot(obj[s], args, kwargs, Env)
       IN  /\ Effects(r)
           /\ last' = CallRecord("add_plot", s, args, kwargs, obj[s], r)
           /\ obj' = [obj EXCEPT ![s] = r.self]
           /\ hist' = [hist EXCEPT ![s] = Summary("add_plot", kwargs, r)]

\* s.update_plot(**kwargs)
UpdatePlot(s, kwargs) ==
    /\ ncalls < MaxCalls
    /\ s \in DOMAIN obj
    /\ LET r == add_plot(obj[s], <<>>, kwargs, Env)
       IN  /\ Effects(r)
           /\ last' = CallRecord("update_plot", s, <<>>, kwargs, obj[s], r)
           /\ obj' = [obj EXCEPT ![s] = r.self]
           /\ hist' = [hist EXCEPT ![s] = Summary("update_plot", kwargs, r)]

\* s.new_plot(*args, **kwargs)
NewPlot(s, args, kwargs) ==
    /\ ncalls < MaxCalls
    /\ s \in DOMAIN obj
    /\ LET r == new_plot(obj[s], args, kwargs, Env)
       IN  /\ Effects(r)
           /\ last' = CallRecord("new_plot", s, args, kwargs, obj[s], r)
           /\ obj' = [obj EXCEPT ![s] = r.self]
           /\ hist' = [hist EXCEPT ![s] = Summary("new_plot", kwargs, r)]

\* s.set_fontsize(font_size)
SetFontsize(s, size) ==
    /\ ncalls < MaxCalls
    /\ s \in DOMAIN obj
    /\ font_size' = size
    /\ ncalls' = ncalls + 1
    /\ last' = [op |-> "set_fontsize", self |-> s, args |-> <<>>,
                kwargs |-> <<>>, pre |-> obj[s], status |-> "ok",
                used |-> obj[s].kwargs, created |-> FALSE, plotted |-> <<>>,
                axcalls |-> {}, font_before |-> font_size, prior |-> hist[s]]
    /\ UNCHANGED <<obj, nfig, nline, optnames, objnames, hist>>

Next ==
    \/ \E s \in objnames, args \in ArgChoices(ncalls + 1),
          kwargs \in Dicts(optnames, ncalls + 1) :
          Construct(s, args, kwargs)
    \/ \E s \in objnames, args \in ArgChoices(ncalls + 1),
          kwargs \in Dicts(optnames, ncalls + 1) :
          AddPlot(s, args, kwargs)
    \/ \E s \in objnames, kwargs \in Dicts(optnames, ncalls + 1) :
          UpdatePlot(s, kwargs)
    \/ \E s \in objnames, args \in ArgChoices(ncalls + 1),
          kwargs \in Dicts(optnames, ncalls + 1) :
          NewPlot(s, args, kwargs)
    \/ \E s \in objnames, size \in ValuesOf("fontsize", ncalls + 1) :
          SetFontsize(s, size)

Spec == Init /\ [][Next]_vars

SpecAlias == InitAlias /\ [][Next]_vars

SpecShared == InitShared /\ [][Next]_vars

----------------------------------------------------------------------------
(* Vocabulary of the properties *)

\* the calls that run add_plot: the constructor, add_plot, update_plot, new_plot
AddOps == {"init", "add_plot", "update_plot", "new_plot"}

\* the last call ran add_plot and returned without raising
Returned == last.op \in AddOps /\ last.status = "ok"

\* key k is among a call's keyword arguments, itself or through an alias
Supplied(kwargs, k) ==
    \/ k \in DOMAIN kwargs
    \/ \E a \in (DOMAIN kwargs) \cap (DOMAIN alias_dict) : alias_dict[a] = k

\* the value a call's keyword arguments give key k (canonical name first)
SuppliedValue(kwargs, k) ==
    IF k \in DOMAIN kwargs
    THEN kwargs[k]
    ELSE kwargs[CHOOSE a \in (DOMAIN kwargs) \cap (DOMAIN alias_dict) :
                    alias_dict[a] = k]

\* d maps k to v
Holds(d, k, v) == k \in DOMAIN d /\ d[k] = v

HandleKeys == {"fig", "ax"}

\* a call's keyword arguments ask for a reset: reset=True
AsksReset(kwargs) == Holds(kwargs, "reset", "True")

\* the options of the session the last call was made on
SelfKw == obj[last.self].kwargs

----------------------------------------------------------------------------
(* C1 *)

\* a unique parameter supplied in a call is gone from self.kwargs when the
\* call returns
C1_DeletedOnReturn ==
    Returned =>
        \A k \in _uniqueparams :
            Supplied(last.kwargs, k) => k \notin DOMAIN SelfKw

\* C1 as stated: a single-use key supplied in call N is absent from self.kwargs
\* when call N returns, and is not among the merged options call N+1 uses
\* unless call N+1 supplies it again.
C1_Original ==
    /\ C1_DeletedOnReturn
    /\ (last.op \in AddOps /\ last.prior.status = "ok") =>
          \A k \in _uniqueparams :
              (Supplied(last.prior.kwargs, k) /\ k \in DOMAIN last.used)
                  => Supplied(last.kwargs, k)

\* C1 amended: a single-use key supplied in call N is absent from self.kwargs
\* when call N returns; the merged options call N+1 uses hold a single-use key
\* only if call N+1 supplies it, or if call N+1 is new_plot with a true reset
\* flag, whose reset puts label back with its default None.
C1_SingleUse ==
    /\ C1_DeletedOnReturn
    /\ (last.op \in AddOps /\ last.prior.status = "ok") =>
          \A k \in _uniqueparams :
              (k \in DOMAIN last.used /\ ~Supplied(last.kwargs, k)) =>
                  /\ last.op = "new_plot"
                  /\ AsksReset(last.kwargs)
                  /\ k = "label"
                  /\ last.used[k] = _default_kwargs[k]

\* call N passed c=..., and returned; call N+1 passed no colour and used none
C1_Witness ==
    /\ Returned
    /\ last.prior.status = "ok"
    /\ "c" \in DOMAIN last.prior.kwargs
    /\ ~Supplied(last.kwargs, "color")
    /\ "color" \notin DOMAIN last.used
    /\ "color" \notin DOMAIN SelfKw

----------------------------------------------------------------------------
(* C2 *)

\* C2: a call of the constructor, add_plot or update_plot that returns leaves
\* line_list unchanged when it was given no positional arguments, and
\* otherwise appends exactly one new handle at its end, the earlier handles
\* kept in order.
C2_LineList ==
    (Returned /\ last.op # "new_plot") =>
        LET before == last.pre.line_list
            after  == obj[last.self].line_list
        IN  IF last.args = <<>>
            THEN after = before
            ELSE /\ Len(after) = Len(before) + 1
                 /\ SubSeq(after, 1, Len(before)) = before
                 /\ \A i \in 1..Len(before) : before[i] # after[Len(after)]

\* constructed with data, then reconfigured only (count stays 1), then a
\* second add with data: two handles
C2_Witness ==
    /\ Returned
    /\ last.op = "add_plot"
    /\ last.args # <<>>
    /\ last.prior.op = "update_plot"
    /\ Len(last.pre.line_list) = 1
    /\ Len(obj[last.self].line_list) = 2

----------------------------------------------------------------------------
(* C3 *)

\* C3: when one call passes an alias and its full name with different values,
\* the merged options hold the full name's value under the full name, that
\* value is the one handed to ax.plot and to rcParams, and no alias is ever a
\* key of self.kwargs.
C3_CanonicalWins ==
    /\ \A s \in DOMAIN obj : (DOMAIN obj[s].kwargs) \cap (DOMAIN alias_dict) = {}
    /\ last.op \in AddOps =>
          \A a \in DOMAIN alias_dict :
              LET k == alias_dict[a]
              IN  (/\ a \in DOMAIN last.kwargs
                   /\ k \in DOMAIN last.kwargs
                   /\ last.kwargs[a] # last.kwargs[k]) =>
                      /\ Holds(last.used, k, last.kwargs[k])
                      /\ a \notin DOMAIN last.used
                      /\ (last.status = "ok" /\ last.args # <<>>
                          /\ k \in plot_kwargs \cup {"color"}) =>
                              Holds(last.plotted, k, last.kwargs[k])
                      /\ (last.status = "ok" /\ k = "fontsize") =>
                              font_size = last.kwargs[k]

\* a call that drew a line was given both names of one option, with
\* different values
C3_Witness ==
    /\ Returned
    /\ last.args # <<>>
    /\ \E a \in DOMAIN alias_dict :
          /\ a \in DOMAIN last.kwargs
          /\ alias_dict[a] \in DOMAIN last.kwargs
          /\ last.kwargs[a] # last.kwargs[alias_dict[a]]
          /\ alias_dict[a] \in DOMAIN last.plotted

----------------------------------------------------------------------------
(* C4 *)

\* the calls C4 is about: add_plot, also as run by the constructor and by
\* update_plot
C4_Calls == last.op \in {"init", "add_plot", "update_plot"}

\* every key in K supplied in the call holds the supplied value in the merged
\* options the call uses
C4_SuppliedHeld(K) ==
    \A k \in K :
        Supplied(last.kwargs, k) =>
            Holds(last.used, k, SuppliedValue(last.kwargs, k))

\* every key in K, not single-use, that was an option before the call and is
\* not supplied in it has its previous value after the call
C4_OthersKept(K) ==
    last.status = "ok" =>
        \A k \in (K \cap DOMAIN last.pre.kwargs) \ _uniqueparams :
            ~Supplied(last.kwargs, k) => Holds(SelfKw, k, last.pre.kwargs[k])

C4_AllKeys == (DOMAIN last.pre.kwargs) \cup (DOMAIN last.used)

\* C4 as stated: every supplied key holds the supplied value during the call's
\* effects, and every other option that is not single-use keeps its value.
C4_Original ==
    C4_Calls => C4_SuppliedHeld(C4_AllKeys) /\ C4_OthersKept(C4_AllKeys)

\* C4 amended: the same for every key other than the handles fig and ax; fig
\* and ax follow the rule too except in a call that finds fig None after the
\* merge, which replaces both with the handles of a new figure and axes.
C4_MergePolicy ==
    C4_Calls =>
        /\ C4_SuppliedHeld(C4_AllKeys \ HandleKeys)
        /\ C4_OthersKept(C4_AllKeys \ HandleKeys)
        /\ ~last.created =>
              C4_SuppliedHeld(HandleKeys) /\ C4_OthersKept(HandleKeys)
        /\ last.created =>
              /\ Holds(last.used, "fig", FigHandle(nfig))
              /\ Holds(last.used, "ax", AxHandle(nfig))

\* title was set two calls ago, the last two add calls did not pass it, and
\* it is still in force; the last call overwrote another option
C4_Witness ==
    /\ Returned
    /\ last.op = "add_plot"
    /\ ~Supplied(last.kwargs, "title")
    /\ ~Supplied(last.prior.kwargs, "title")
    /\ "title" \in DOMAIN SelfKw
    /\ <<"set_title", SelfKw["title"]>> \in last.axcalls
    /\ "linewidth" \in DOMAIN last.kwargs
    /\ "linewidth" \in DOMAIN last.pre.kwargs
    /\ last.pre.kwargs["linewidth"] # SelfKw["linewidth"]

----------------------------------------------------------------------------
(* C5 *)

\* the last call was new_plot(reset=True), with or without data and with no
\* other option, and it returned
C5_Case ==
    /\ Returned
    /\ last.op = "new_plot"
    /\ DOMAIN last.kwargs = {"reset"}
    /\ AsksReset(last.kwargs)

\* every default option other than the handles has its default value, as far
\* as it is present
C5_DefaultValues ==
    \A k \in ((DOMAIN _default_kwargs) \cap (DOMAIN SelfKw)) \ HandleKeys :
        SelfKw[k] = _default_kwargs[k]

\* C5 as stated: after new_plot(reset=True) the options have exactly the keys
\* of _default_kwargs, each but fig and ax with its default value.
C5_Original ==
    C5_Case =>
        /\ DOMAIN SelfKw = DOMAIN _default_kwargs
        /\ C5_DefaultValues

\* C5 amended: after new_plot(reset=True) the options have the keys of
\* _default_kwargs without label (deleted as single-use when the call ends)
\* and with reset (the flag is merged into the options like any keyword),
\* every default key but fig and ax has its default value, and fig and ax
\* are the handles of a new figure and axes.
C5_ResetToDefaults ==
    C5_Case =>
        /\ DOMAIN SelfKw = ((DOMAIN _default_kwargs) \ {"label"}) \cup {"reset"}
        /\ C5_DefaultValues
        /\ SelfKw["reset"] = last.kwargs["reset"]
        /\ SelfKw["fig"] = FigHandle(nfig)
        /\ SelfKw["ax"] = AxHandle(nfig)

\* new_plot(reset=True) on a session that had a title and a changed
\* showlegend or label left; they are gone or back at their defaults
C5_Witness ==
    /\ C5_Case
    /\ \/ "title" \in DOMAIN last.pre.kwargs
       \/ last.pre.kwargs["showlegend"] # _default_kwargs["showlegend"]
    /\ "title" \notin DOMAIN SelfKw

----------------------------------------------------------------------------
(* C6 *)

\* the last call was new_plot without a reset flag or with a false one, and
\* it returned
C6_Case ==
    /\ Returned
    /\ last.op = "new_plot"
    /\ ~AsksReset(last.kwargs)

\* every key in K, not single-use, that was an option before the call and is
\* not supplied in it is still there with the same value
C6_Kept(K) ==
    \A k \in (K \cap DOMAIN last.pre.kwargs) \ _uniqueparams :
        ~Supplied(last.kwargs, k) => Holds(SelfKw, k, last.pre.kwargs[k])

\* line_list was cleared before the new data was drawn
C6_Cleared ==
    obj[last.self].line_list =
        IF last.args = <<>> THEN <<>> ELSE <<LineHandle(nline)>>

\* C6 as stated: new_plot without reset keeps every option that is not
\* single-use and not supplied, and clears line_list before drawing.
C6_Original ==
    C6_Case => C6_Kept(DOMAIN last.pre.kwargs) /\ C6_Cleared

\* C6 amended: new_plot without reset keeps every option that is not
\* single-use, not supplied and not one of the handles fig and ax, and clears
\* line_list before drawing; fig and ax are not kept: they become the handles
\* of a new figure and axes unless fig is supplied, and then ax is the
\* supplied one or None.
C6_NewKeeps ==
    C6_Case =>
        /\ C6_Kept((DOMAIN last.pre.kwargs) \ HandleKeys)
        /\ C6_Cleared
        /\ last.created =>
              SelfKw["fig"] = FigHandle(nfig) /\ SelfKw["ax"] = AxHandle(nfig)
        /\ (~last.created /\ "ax" \notin DOMAIN last.kwargs) =>
              SelfKw["ax"] = None

\* new_plot without a reset flag, with data, on a session that had a title
\* and a line: the title is kept, the old line is gone
C6_Witness ==
    /\ C6_Case
    /\ "reset" \notin DOMAIN last.kwargs
    /\ "title" \in DOMAIN last.pre.kwargs
    /\ ~Supplied(last.kwargs, "title")
    /\ Holds(SelfKw, "title", last.pre.kwargs["title"])
    /\ Len(last.pre.line_list) = 1
    /\ last.args # <<>>
    /\ obj[last.self].line_list # last.pre.line_list

----------------------------------------------------------------------------
(* C7 *)

\* C7 as stated: between calls the options of every session hold every key
\* of _default_kwargs.
C7_Original ==
    \A s \in DOMAIN obj : (DOMAIN _default_kwargs) \subseteq DOMAIN obj[s].kwargs

\* C7 amended: between calls the options of every session hold every key of
\* _default_kwargs except label; label is a single-use key and is absent
\* after every call that returned.
C7_DefaultKeys ==
    \A s \in DOMAIN obj :
        /\ ((DOMAIN _default_kwargs) \ {"label"}) \subseteq DOMAIN obj[s].kwargs
        /\ hist[s].status = "ok" => "label" \notin DOMAIN obj[s].kwargs

\* a session after a new_plot with reset and one more call
C7_Witness ==
    /\ Returned
    /\ last.op \in {"add_plot", "update_plot"}
    /\ last.prior.op = "new_plot"
    /\ AsksReset(last.prior.kwargs)
    /\ "label" \notin DOMAIN SelfKw
    /\ "loc" \in DOMAIN SelfKw

----------------------------------------------------------------------------
(* C8 *)

\* C8 as stated: a call that supplies font size 16 and returns leaves the
\* process-wide font size at 16, and a call that supplies no font size does
\* not change the process-wide font size (so 16 stays until a call supplies
\* a font size or calls set_fontsize).
C8_Original ==
    /\ (Returned /\ Supplied(last.kwargs, "fontsize")
        /\ SuppliedValue(last.kwargs, "fontsize") = "16") => font_size = "16"
    /\ (last.op \in AddOps /\ ~Supplied(last.kwargs, "fontsize")) =>
          font_size = last.font_before

----------------------------------------------------------------------------
(* C9 *)

\* the value of handle h after the merge of the last call, before line 106
C9_Merged(h) ==
    IF h \in DOMAIN last.kwargs THEN last.kwargs[h]
    ELSE IF last.op \in {"init", "new_plot"} THEN None
    ELSE last.pre.kwargs[h]

\* handles are made exactly when fig is None after the merge, and they are
\* those of a figure and axes that did not exist before
C9_CreatedWhenUnset ==
    last.op \in AddOps =>
        /\ last.created <=> (C9_Merged("fig") = None)
        /\ last.created =>
              /\ last.used["fig"] = FigHandle(nfig)
              /\ last.used["ax"] = AxHandle(nfig)
              /\ \A s \in DOMAIN obj : s # last.self =>
                    /\ obj[s].kwargs["fig"] # last.used["fig"]
                    /\ obj[s].kwargs["ax"] # last.used["ax"]
              /\ last.op # "init" =>
                    /\ last.pre.kwargs["fig"] # last.used["fig"]
                    /\ last.pre.kwargs["ax"] # last.used["ax"]

\* C9 as stated: after every call that returns, fig and ax are both set;
\* handles are made exactly when fig is unset; new_plot ends with handles
\* that are new or supplied in the call.
C9_Original ==
    /\ Returned => SelfKw["fig"] # None /\ SelfKw["ax"] # None
    /\ C9_CreatedWhenUnset
    /\ (Returned /\ last.op = "new_plot") =>
          \A h \in HandleKeys :
              \/ last.created
              \/ Holds(last.kwargs, h, SelfKw[h])

\* C9 amended: after every call that returns, fig is set; ax is set too
\* except when, after the call's keywords are merged, fig is set and ax is
\* not, as when the constructor or new_plot is given fig without ax: then
\* nothing is created and ax is None, and stays None through later calls
\* until one supplies ax.  Handles are made exactly when fig is None after
\* the merge; new_plot ends with handles that are new or supplied in the
\* call, or with ax None when fig alone was supplied.
C9_Attached ==
    /\ Returned =>
          /\ SelfKw["fig"] # None
          /\ SelfKw["ax"] = None <=>
                (C9_Merged("fig") # None /\ C9_Merged("ax") = None)
    /\ (Returned /\ last.op \in {"init", "new_plot"}) =>
          (SelfKw["ax"] = None <=>
              /\ "fig" \in DOMAIN last.kwargs
              /\ last.kwargs["fig"] # None
              /\ ("ax" \in DOMAIN last.kwargs => last.kwargs["ax"] = None))
    /\ C9_CreatedWhenUnset
    /\ (Returned /\ last.op = "new_plot") =>
          \A h \in HandleKeys :
              \/ last.created
              \/ Holds(last.kwargs, h, SelfKw[h])
              \/ h = "ax" /\ "ax" \notin DOMAIN last.kwargs /\ SelfKw[h] = None

\* new_plot on an attached session, given no handles: both handles are new
C9_Witness ==
    /\ Returned
    /\ last.op = "new_plot"
    /\ HandleKeys \cap DOMAIN last.kwargs = {}
    /\ last.pre.kwargs["fig"] # None
    /\ last.created
    /\ SelfKw["fig"] \notin {None, last.pre.kwargs["fig"]}
    /\ SelfKw["ax"] \notin {None, last.pre.kwargs["ax"]}

----------------------------------------------------------------------------
(* C10 *)

\* the last call ran add_plot on a session that exists
C10_Case == last.op \in AddOps /\ last.self \in DOMAIN obj

\* C10 as stated: after a call self.args are the positional arguments of that
\* call, empty when it had none.
C10_Original ==
    C10_Case => obj[last.self].args = last.args

\* C10 amended: after a call that supplies positional data self.args equal
\* that data; after add_plot or update_plot without positional data
\* self.args are unchanged (the data of an earlier call, if any) and
\* isnewargs is False; after new_plot without positional data they are empty.
C10_PendingArgs ==
    C10_Case =>
        /\ obj[last.self].isnewargs = (last.args # <<>>)
        /\ obj[last.self].args =
              IF last.args # <<>> THEN last.args
              ELSE IF last.op = "new_plot" THEN <<>>
              ELSE last.pre.args

\* update_plot after a call with data: the old data is still in self.args
C10_Witness ==
    /\ Returned
    /\ last.op = "update_plot"
    /\ last.pre.args # <<>>
    /\ obj[last.self].args = last.pre.args
    /\ ~obj[last.self].isnewargs

====
